---- MODULE Spec2Model ----
(***************************************************************************)
(* Model of script.py: the three site pipelines (Amazon, BestBuy,          *)
(* Samsung), main's flattening of their results, and the spreadsheet       *)
(* store of save_dict_to_excel_row with its column projection.             *)
(*                                                                         *)
(* Python strings are sequences of chunks (single characters where the     *)
(* code looks inside the string, whole literals otherwise); Python's None  *)
(* is the value None below.  A dict is the sequence of its <<key, value>>  *)
(* pairs in insertion order.                                               *)
(***************************************************************************)
EXTENDS Integers, Sequences, FiniteSets, TLC

VARIABLES
    xlsx,        \* the workbook file outputs/results.xlsx on disk
    calls,       \* number of save_dict_to_excel_row calls made so far
    lastData,    \* the dict given to the last save_dict_to_excel_row call
    lastPath,    \* "none", "new" (file created) or "existing" (file loaded)
    site,        \* the site whose pipeline is running
    urls,        \* the pipeline's list of URLs
    idx,         \* enumerate(urls, start=1): the index of the URL in hand
    pc,          \* the await the pipeline is at
    page,        \* the variable page: 0 for None or unbound, else the page of URL page
    results,     \* the pipeline's list results
    openPages,   \* the pages open in the browser, each named by its URL's index
    fs,          \* the files written under outputs/: path -> captured document
    cookieFile,  \* site -> whether the site's cookies file exists
    loads,       \* site -> contexts created from the cookies file
    saves,       \* site -> times the cookies file was written
    err,         \* the exception in flight (the failed step), or NoErr
    outcome,     \* "idle", "running", "returned" or "raised"
    mainpc,      \* "standalone", or main's position
    res,         \* main: site -> the list its pipeline returned
    call,        \* the arguments of the function called on its own, or NoCall
    ret,         \* what that call returned or raised, or None
    writers      \* the save_dict_to_excel_row invocations running side by side

storeVars == <<xlsx, calls, lastData, lastPath>>

pipeVars == <<site, urls, idx, pc, page, results, openPages, fs, cookieFile,
              loads, saves, err, outcome>>

mainVars == <<mainpc, res>>

callVars == <<call, ret, writers>>

vars == <<storeVars, pipeVars, mainVars, callVars>>

-----------------------------------------------------------------------------
(* Bounds *)

MaxCalls == 3

MaxUrls == 2

MaxTokens == 2

MaxStrLen == 2

MaxRadios == 2

-----------------------------------------------------------------------------
(* Python values *)

None == <<"<None>">>

Max(S) == CHOOSE m \in S : \A n \in S : n <= m
Min(S) == CHOOSE m \in S : \A n \in S : m <= n

Range(s) == {s[i] : i \in 1..Len(s)}

\* a list value is the marker chunk followed by its (string) items
PyList(items) == <<"<list>">> \o items

IsStructured(v) == Len(v) > 0 /\ v[1] \in {"<list>", "<dict>", "<tuple>"}

RECURSIVE JsonItems(_)
JsonItems(items) ==
    IF items = <<>> THEN <<>>
    ELSE <<"\"", Head(items), "\"">> \o
         (IF Len(items) > 1 THEN <<", ">> ELSE <<>>) \o JsonItems(Tail(items))

\* json.dumps(v, ensure_ascii=False) of a list of strings
JsonDumps(v) == <<"[">> \o JsonItems(Tail(v)) \o <<"]">>

_to_jsonable(v) == IF IsStructured(v) THEN JsonDumps(v) ELSE v

\* dict operations on a sequence of <<key, value>> pairs
DictKeys(d) == [i \in 1..Len(d) |-> d[i][1]]

DictHas(d, k) == \E i \in 1..Len(d) : d[i][1] = k

DictGet(d, k) ==
    IF DictHas(d, k) THEN d[CHOOSE i \in 1..Len(d) : d[i][1] = k][2] ELSE None

-----------------------------------------------------------------------------
(* Strings *)

Digits == {"0", "1", "2", "3", "4", "5", "6", "7", "8", "9"}

IsDigit(c) == c \in Digits

\* str(i) for the indexes the model uses
DigitStr == <<"1", "2", "3", "4", "5", "6", "7", "8", "9">>

IsLetter(c) ==
    \/ c \in {"a", "b", "c", "d", "e", "f", "g", "h", "i", "j", "k", "l", "m",
              "n", "o", "p", "q", "r", "s", "t", "u", "v", "w", "x", "y", "z"}
    \/ c \in {"A", "B", "C", "D", "E", "F", "G", "H", "I", "J", "K", "L", "M",
              "N", "O", "P", "Q", "R", "S", "T", "U", "V", "W", "X", "Y", "Z"}

IsAlnum(c) == IsLetter(c) \/ IsDigit(c)

RECURSIVE Concat(_)
Concat(seqs) == IF seqs = <<>> THEN <<>> ELSE Head(seqs) \o Concat(Tail(seqs))

\* s[:n]; a negative n counts from the end of s
Truncate(s, n) ==
    IF n < 0 THEN SubSeq(s, 1, IF Len(s) + n > 0 THEN Len(s) + n ELSE 0)
    ELSE SubSeq(s, 1, IF Len(s) < n THEN Len(s) ELSE n)

\* the bytes urllib's quote_plus writes for a character it escapes
PercentCode(c) ==
    CASE c = ":" -> <<"%", "3", "A">>
      [] c = "/" -> <<"%", "2", "F">>
      [] c = "?" -> <<"%", "3", "F">>
      [] c = "=" -> <<"%", "3", "D">>
      [] c = "&" -> <<"%", "2", "6">>
      [] c = "%" -> <<"%", "2", "5">>
      [] c = "+" -> <<"%", "2", "B">>
      [] c = "#" -> <<"%", "2", "3">>
      [] c = "$" -> <<"%", "2", "4">>
      [] c = "," -> <<"%", "2", "C">>
      [] OTHER   -> <<"%", "3", "F">>

\* quote_plus(s, safe=""): letters, digits and _.-~ stay, a space becomes +
QuoteChar(c) ==
    IF IsAlnum(c) \/ c \in {"_", ".", "-", "~"} THEN <<c>>
    ELSE IF c = " " THEN <<"+">>
    ELSE PercentCode(c)

quote_plus(s) == Concat([i \in 1..Len(s) |-> QuoteChar(s[i])])

\* re.sub(r'[^A-Za-z0-9._-]', '_', s)
CleanChar(c) == IF IsAlnum(c) \/ c \in {".", "_", "-"} THEN c ELSE "_"

DefaultMaxLen == 200

\* sanitize_filename (lines 36-42)
sanitize_filename(s, maxlen) ==
    IF s = <<>> \/ s = None THEN <<"f", "i", "l", "e">>
    ELSE LET s_enc == quote_plus(s)
             s_clean == [i \in 1..Len(s_enc) |-> CleanChar(s_enc[i])]
         IN  Truncate(s_clean, maxlen)

-----------------------------------------------------------------------------
(* The spreadsheet library, as the code uses it *)

NoFile == [exists |-> FALSE, sheets |-> <<>>, active |-> 0]

EmptyCells == [rc \in {} |-> None]

NewSheet(title) == [title |-> title, cells |-> EmptyCells, current_row |-> 0]

\* Workbook(): one sheet, which is the active one
Workbook == [sheets |-> <<NewSheet(<<"Sheet">>)>>, active |-> 1]

max_row(ws) ==
    IF DOMAIN ws.cells = {} THEN 1 ELSE Max({rc[1] : rc \in DOMAIN ws.cells})

max_column(ws) ==
    IF DOMAIN ws.cells = {} THEN 1 ELSE Max({rc[2] : rc \in DOMAIN ws.cells})

CellValue(ws, r, c) ==
    IF <<r, c>> \in DOMAIN ws.cells THEN ws.cells[<<r, c>>] ELSE None

\* ws.cell(row, column, value): the cell is created when absent, and a
\* value of None leaves the cell's value as it is
SetCell(ws, r, c, v) ==
    LET old == CellValue(ws, r, c)
        new == IF v # None THEN v ELSE old
    IN  [ws EXCEPT
            !.cells = [rc \in (DOMAIN ws.cells) \cup {<<r, c>>} |->
                          IF rc = <<r, c>> THEN new ELSE ws.cells[rc]],
            !.current_row = IF r > ws.current_row THEN r ELSE ws.current_row]

AppendRowOverFirst(ws, row) ==
    [ws EXCEPT
        !.cells = [rc \in (DOMAIN ws.cells) \cup {<<2, c>> : c \in 1..Len(row)} |->
                      IF rc[1] = 2 /\ rc[2] \in 1..Len(row)
                      THEN row[rc[2]] ELSE ws.cells[rc]],
        !.current_row = 2]

\* ws.append(row): the row goes below the sheet's current row
AppendRow(ws, row) ==
    LET row_idx == ws.current_row + 1
    IN  [ws EXCEPT
            !.cells = [rc \in (DOMAIN ws.cells) \cup
                                {<<row_idx, c>> : c \in 1..Len(row)} |->
                          IF rc[1] = row_idx /\ rc[2] \in 1..Len(row)
                          THEN row[rc[2]] ELSE ws.cells[rc]],
            !.current_row = row_idx]

\* wb.save(path): cells whose value is None are not written
SaveWorkbook(wb) ==
    [exists |-> TRUE,
     sheets |-> [i \in 1..Len(wb.sheets) |->
                   LET ws == wb.sheets[i]
                       kept == {rc \in DOMAIN ws.cells : ws.cells[rc] # None}
                   IN  [title |-> ws.title,
                        cells |-> [rc \in kept |-> ws.cells[rc]]]],
     active |-> wb.active]

\* load_workbook(path): the current row of a sheet is its last row with a cell
LoadWorkbookFromTop(file) ==
    [sheets |-> [i \in 1..Len(file.sheets) |->
                   LET s == file.sheets[i]
                   IN  [title |-> s.title,
                        cells |-> s.cells,
                        current_row |-> IF DOMAIN s.cells = {} THEN 0 ELSE 1]],
     active |-> file.active]

LoadWorkbook(file) ==
    [sheets |-> [i \in 1..Len(file.sheets) |->
                   LET s == file.sheets[i]
                   IN  [title |-> s.title,
                        cells |-> s.cells,
                        current_row |-> IF DOMAIN s.cells = {} THEN 0
                                        ELSE Max({rc[1] : rc \in DOMAIN s.cells})]],
     active |-> file.active]

sheetnames(wb) == [i \in 1..Len(wb.sheets) |-> wb.sheets[i].title]

SheetIndex(wb, title) == CHOOSE i \in 1..Len(wb.sheets) : wb.sheets[i].title = title

\* del wb[title]
RemoveSheet(wb, title) ==
    LET k == SheetIndex(wb, title)
    IN  [wb EXCEPT !.sheets = [i \in 1..(Len(wb.sheets) - 1) |->
                                  IF i < k THEN wb.sheets[i] ELSE wb.sheets[i + 1]]]

\* wb.create_sheet(title): the new sheet goes last
CreateSheetFirst(wb, title) == [wb EXCEPT !.sheets = <<NewSheet(title)>> \o wb.sheets]

CreateSheet(wb, title) == [wb EXCEPT !.sheets = Append(wb.sheets, NewSheet(title))]

-----------------------------------------------------------------------------
(* Column letters (openpyxl.utils.column_index_from_string) *)

LowerLetters ==
    <<"a", "b", "c", "d", "e", "f", "g", "h", "i", "j", "k", "l", "m",
      "n", "o", "p", "q", "r", "s", "t", "u", "v", "w", "x", "y", "z">>

UpperLetters ==
    <<"A", "B", "C", "D", "E", "F", "G", "H", "I", "J", "K", "L", "M",
      "N", "O", "P", "Q", "R", "S", "T", "U", "V", "W", "X", "Y", "Z">>

IsLower(c) == \E i \in 1..26 : LowerLetters[i] = c

IsUpper(c) == \E i \in 1..26 : UpperLetters[i] = c

\* str.upper() and str.lower(), character by character
UpperChar(c) ==
    IF IsLower(c) THEN UpperLetters[CHOOSE i \in 1..26 : LowerLetters[i] = c] ELSE c

LowerChar(c) ==
    IF IsUpper(c) THEN LowerLetters[CHOOSE i \in 1..26 : UpperLetters[i] = c] ELSE c

StrUpper(s) == [i \in 1..Len(s) |-> UpperChar(s[i])]

StrLower(s) == [i \in 1..Len(s) |-> LowerChar(s[i])]

IsSpace(c) == c \in {" ", "\t", "\n"}

\* str.strip()
RECURSIVE LStrip(_)
LStrip(s) == IF s # <<>> /\ IsSpace(Head(s)) THEN LStrip(Tail(s)) ELSE s

RECURSIVE RStrip(_)
RStrip(s) ==
    IF s # <<>> /\ IsSpace(s[Len(s)]) THEN RStrip(SubSeq(s, 1, Len(s) - 1)) ELSE s

StrStrip(s) == RStrip(LStrip(s))

LetterValue(c) == CHOOSE i \in 1..26 : UpperLetters[i] = c

RECURSIVE LettersToIndex(_)
LettersToIndex(s) ==
    IF s = <<>> THEN 0
    ELSE 26 * LettersToIndex(SubSeq(s, 1, Len(s) - 1)) + LetterValue(s[Len(s)])

\* the column names the library knows: one to three letters A..Z
ValidColumnName(s) == Len(s) \in 1..3 /\ \A i \in 1..Len(s) : IsUpper(s[i])

ColumnIndexCaseSensitive(s) == IF ValidColumnName(s) THEN LettersToIndex(s) ELSE 0

\* 0 stands for the ValueError of an unknown column name
column_index_from_string(s) ==
    IF ValidColumnName(StrUpper(s)) THEN LettersToIndex(StrUpper(s)) ELSE 0

BlankColumn == <<"b", "l", "a", "n", "k", " ", "c", "o", "l", "u", "m", "n">>

\* the layout hard-coded in save_dict_to_excel_row
column_refs ==
    << <<"a">>, <<"d">>, <<"a", "r">>, <<"x">>, <<"e">>, <<"a", "s">>, <<"y">>,
       BlankColumn,
       <<"i">>, <<"a", "w">>, <<"a", "c">>, <<"j">>, <<"a", "x">>, <<"a", "d">>,
       BlankColumn,
       <<"n">>, <<"b", "b">>, <<"a", "h">>, <<"o">>, <<"b", "c">>, <<"a", "i">>,
       BlankColumn,
       <<"s">>, <<"b", "g">>, <<"a", "m">>, <<"t">>, <<"b", "h">>, <<"a", "n">> >>

ConvertedName == <<"converted">>

-----------------------------------------------------------------------------
(* The projection loop of save_dict_to_excel_row *)

\* token is None or token.strip().lower() == "blank column"
IsBlankToken(token) == token = None \/ StrLower(StrStrip(token)) = BlankColumn

\* for r in range(1, max_row + 1): tgt.cell(row=r, column=tgt_col, value=...)
\* with the value of the source cell (src_col > 0) or None (src_col = 0)
FillColumn(src, tgt, src_col, tgt_col, maxRow) ==
    LET new == {<<r, tgt_col>> : r \in 1..maxRow}
        val(r) == IF src_col = 0 THEN None ELSE CellValue(src, r, src_col)
    IN  [tgt EXCEPT
            !.cells = [rc \in (DOMAIN tgt.cells) \cup new |->
                          IF rc \in new /\ val(rc[1]) # None THEN val(rc[1])
                          ELSE CellValue(tgt, rc[1], rc[2])],
            !.current_row = IF maxRow > tgt.current_row THEN maxRow
                            ELSE tgt.current_row]

RECURSIVE ProjectTokensSkipsMalformed(_, _, _, _, _)
ProjectTokensSkipsMalformed(src, tgt, tokens, tgt_col_idx, maxRow) ==
    IF tokens = <<>> THEN tgt
    ELSE LET token == Head(tokens)
             src_col_idx == column_index_from_string(StrStrip(token))
         IN  IF IsBlankToken(token)
             THEN ProjectTokensSkipsMalformed(src, tgt, Tail(tokens), tgt_col_idx + 1, maxRow)
             ELSE IF src_col_idx = 0
             THEN ProjectTokensSkipsMalformed(src, tgt, Tail(tokens), tgt_col_idx, maxRow)
             ELSE ProjectTokensSkipsMalformed(src,
                                FillColumn(src, tgt, src_col_idx, tgt_col_idx, maxRow),
                                Tail(tokens), tgt_col_idx + 1, maxRow)

RECURSIVE ProjectTokens(_, _, _, _, _)
ProjectTokens(src, tgt, tokens, tgt_col_idx, maxRow) ==
    IF tokens = <<>> THEN tgt
    ELSE LET token == Head(tokens)
             src_col_idx == column_index_from_string(StrStrip(token))
         IN  IF IsBlankToken(token)
             THEN ProjectTokens(src, tgt, Tail(tokens), tgt_col_idx + 1, maxRow)
             ELSE ProjectTokens(src,
                                FillColumn(src, tgt, src_col_idx, tgt_col_idx, maxRow),
                                Tail(tokens), tgt_col_idx + 1, maxRow)

ProjectWorkbookKeepsOld(wb, tokens) ==
    LET src == wb.sheets[1]
        wb2 == CreateSheet(wb, ConvertedName)
        k   == Len(wb2.sheets)
        tgt == ProjectTokens(src, wb2.sheets[k], tokens, 1, max_row(src))
    IN  [wb2 EXCEPT !.sheets[k] = tgt]

\* lines 97-157 and 180-227: drop an old "converted" sheet, create a new one
\* last, and fill it from the first sheet of the workbook
ProjectWorkbook(wb, tokens) ==
    LET src == wb.sheets[1]
        wb1 == IF ConvertedName \in Range(sheetnames(wb))
               THEN RemoveSheet(wb, ConvertedName) ELSE wb
        wb2 == CreateSheet(wb1, ConvertedName)
        k   == Len(wb2.sheets)
        tgt == ProjectTokens(src, wb2.sheets[k], tokens, 1, max_row(src))
    IN  [wb2 EXCEPT !.sheets[k] = tgt]

FileNotFound == <<"FileNotFoundError">>

\* copy_columns_by_references (lines 165-231): the file afterwards and the
\* name returned or the exception raised
copy_columns_by_references(file, refs) ==
    IF ~file.exists THEN [file |-> file, ret |-> FileNotFound]
    ELSE [file |-> SaveWorkbook(ProjectWorkbook(LoadWorkbook(file), refs)),
          ret  |-> ConvertedName]

-----------------------------------------------------------------------------
(* save_dict_to_excel_row *)

\* lines 58-67: the file does not exist
SaveNewFile(data) ==
    LET headers == DictKeys(data)
        row     == [i \in 1..Len(headers) |-> _to_jsonable(DictGet(data, headers[i]))]
        wb      == Workbook
        ws1     == AppendRow(wb.sheets[wb.active], headers)
        ws2     == AppendRow(ws1, row)
    IN  SaveWorkbook([wb EXCEPT !.sheets[wb.active] = ws2])

\* line 74-75: the values of row 1, columns 1..max_column
ExistingHeaders(ws) == [c \in 1..max_column(ws) |-> CellValue(ws, 1, c)]

\* line 78
NewKeysUnfiltered(data, existing_headers) == DictKeys(data)

NewKeys(data, existing_headers) ==
    SelectSeq(DictKeys(data), LAMBDA k : k \notin Range(existing_headers))

RECURSIVE WriteHeaders(_, _, _)
WriteHeaders(ws, headers, col_idx) ==
    IF col_idx > Len(headers) THEN ws
    ELSE WriteHeaders(SetCell(ws, 1, col_idx, headers[col_idx]), headers, col_idx + 1)

\* lines 87-91
BuildRowShifted(data, headers) ==
    [i \in 1..Len(headers) |-> DictGet(data, headers[IF i < Len(headers) THEN i + 1 ELSE 1])]

BuildRow(data, headers) ==
    [i \in 1..Len(headers) |->
        LET v == DictGet(data, headers[i])
        IN  IF v # None THEN _to_jsonable(v) ELSE None]

AppendToWorkbookAtRowTwo(wb, data) ==
    LET ws == wb.sheets[wb.active]
        existing_headers == ExistingHeaders(ws)
        new_keys == NewKeys(data, existing_headers)
        headers  == existing_headers \o new_keys
        ws1 == IF new_keys # <<>> THEN WriteHeaders(ws, headers, 1) ELSE ws
        ws2 == AppendRowOverFirst(ws1, BuildRow(data, headers))
    IN  [wb EXCEPT !.sheets[wb.active] = ws2]

\* lines 70-94: the workbook in memory after the row is appended
AppendToWorkbook(wb, data) ==
    LET ws == wb.sheets[wb.active]
        existing_headers == ExistingHeaders(ws)
        new_keys == NewKeys(data, existing_headers)
        headers  == existing_headers \o new_keys
        ws1 == IF new_keys # <<>> THEN WriteHeaders(ws, headers, 1) ELSE ws
        ws2 == AppendRow(ws1, BuildRow(data, headers))
    IN  [wb EXCEPT !.sheets[wb.active] = ws2]

SaveExistingProjectsFirst(file, data) ==
    LET wb1 == ProjectWorkbook(LoadWorkbook(file), column_refs)
    IN  SaveWorkbook(AppendToWorkbook(wb1, data))

\* lines 70-158: the file exists; it is saved after the append and again
\* after the projection
SaveExistingFile(file, data) ==
    LET wb1 == AppendToWorkbook(LoadWorkbook(file), data)
    IN  SaveWorkbook(ProjectWorkbook(wb1, column_refs))

save_dict_to_excel_row(file, data) ==
    IF ~file.exists THEN SaveNewFile(data) ELSE SaveExistingFile(file, data)

-----------------------------------------------------------------------------
(* Site extractors.  A captured document is the record of what the parser's *)
(* queries find in it: the text of an element, or None when no element      *)
(* matches.                                                                 *)

\* does sub occur in s at position i
OccursAt(s, sub, i) == i + Len(sub) - 1 <= Len(s) /\ SubSeq(s, i, i + Len(sub) - 1) = sub

Contains(s, sub) == \E i \in 1..(Len(s) + 1) : OccursAt(s, sub, i)

\* the end of the longest run of characters satisfying Ok that starts at i
\* (i - 1 when s[i] does not satisfy it)
RunEnd(s, i, Ok(_)) ==
    Max({k \in (i - 1)..Len(s) : \A j \in i..k : Ok(s[j])})

IsSkuChar(c) == IsAlnum(c) \/ c = "-"

SkuPrefix == <<"s", "k", "u", "-">>

SkuStarts(url) ==
    {i \in 1..Len(url) :
        /\ i + 4 <= Len(url)
        /\ [j \in 1..4 |-> LowerChar(url[i + j - 1])] = SkuPrefix
        /\ IsSkuChar(url[i + 4])}

ExtractSkuNull(url) == None

\* extract_sku_from_url (lines 511-518): re.search(r"sku-([A-Za-z0-9-]+)", url, re.I)
extract_sku_from_url(url) ==
    IF url = <<>> \/ url = None \/ SkuStarts(url) = {} THEN None
    ELSE LET i == Min(SkuStarts(url))
         IN  SubSeq(url, i + 4, RunEnd(url, i + 4, IsSkuChar))

NoDoc ==
    [price_whole |-> None, price_fraction |-> None, price_symbol |-> None,
     th_model |-> FALSE, td_model |-> None,
     bb_price |-> None, bb_model |-> None,
     device_info |-> FALSE, radios |-> <<>>]

FileExists(files, path) == path \in DOMAIN files

ParseAmazonNeedsSymbol(files, path) ==
    IF ~FileExists(files, path) THEN <<None, None>>
    ELSE LET doc == files[path]
             price == IF /\ doc.price_whole # None
                         /\ doc.price_fraction # None
                         /\ doc.price_symbol # None
                      THEN StrStrip(doc.price_symbol) \o StrStrip(doc.price_whole)
                               \o <<".">> \o StrStrip(doc.price_fraction)
                      ELSE None
             model_number == IF doc.th_model /\ doc.td_model # None
                             THEN StrStrip(doc.td_model) ELSE None
         IN  <<price, model_number>>

\* parse_amazon_html (lines 322-371): <<price, model_number>>
parse_amazon_html(files, path) ==
    IF ~FileExists(files, path) THEN <<None, None>>
    ELSE LET doc == files[path]
             symbol_text == IF doc.price_symbol # None
                            THEN StrStrip(doc.price_symbol) ELSE <<>>
             price == IF doc.price_whole # None /\ doc.price_fraction # None
                      THEN symbol_text \o StrStrip(doc.price_whole) \o <<".">>
                               \o StrStrip(doc.price_fraction)
                      ELSE None
             model_number == IF doc.th_model /\ doc.td_model # None
                             THEN StrStrip(doc.td_model) ELSE None
         IN  <<price, model_number>>

\* str.replace(old, ""), left to right
RECURSIVE RemoveAll(_, _)
RemoveAll(s, old) ==
    IF s = <<>> THEN <<>>
    ELSE IF OccursAt(s, old, 1) THEN RemoveAll(SubSeq(s, Len(old) + 1, Len(s)), old)
    ELSE <<Head(s)>> \o RemoveAll(Tail(s), old)

ModelPrefix == <<"M", "o", "d", "e", "l", ":">>

ParseBestbuyMissingIsNull(files, path) ==
    IF ~FileExists(files, path) THEN <<None, None>>
    ELSE LET doc == files[path]
             price == IF doc.bb_price # None THEN StrStrip(doc.bb_price)
                      ELSE <<"Price not found">>
             model_number == IF doc.bb_model # None
                             THEN StrStrip(RemoveAll(StrStrip(doc.bb_model), ModelPrefix))
                             ELSE <<"Model number not found">>
         IN  <<price, model_number>>

ParseBestbuyNullWhenNotFound(files, path) ==
    IF ~FileExists(files, path) THEN << <<"Price not found">>, <<"Model number not found">> >>
    ELSE LET doc == files[path]
             price == IF doc.bb_price # None THEN StrStrip(doc.bb_price) ELSE None
             model_number == IF doc.bb_model # None
                             THEN StrStrip(RemoveAll(StrStrip(doc.bb_model), ModelPrefix))
                             ELSE <<"Model number not found">>
         IN  <<price, model_number>>

\* parse_bestbuy_html (lines 376-411): <<price, model_number>>
parse_bestbuy_html(files, path) ==
    IF ~FileExists(files, path) THEN << <<"Price not found">>, <<"Model number not found">> >>
    ELSE LET doc == files[path]
             price == IF doc.bb_price # None THEN StrStrip(doc.bb_price)
                      ELSE <<"Price not found">>
             model_number == IF doc.bb_model # None
                             THEN StrStrip(RemoveAll(StrStrip(doc.bb_model), ModelPrefix))
                             ELSE <<"Model number not found">>
         IN  <<price, model_number>>

IsPriceChar(c) == IsDigit(c) \/ c = ","

\* the end of a match of \$\s*[\d,]+\.\d{2} that starts at i, or 0
PriceMatchEnd(s, i) ==
    IF i > Len(s) \/ s[i] # "$" THEN 0
    ELSE LET j == RunEnd(s, i + 1, IsSpace) + 1
             k == RunEnd(s, j, IsPriceChar)
         IN  IF /\ k >= j
                /\ k + 3 <= Len(s)
                /\ s[k + 1] = "."
                /\ IsDigit(s[k + 2])
                /\ IsDigit(s[k + 3])
             THEN k + 3 ELSE 0

PriceMatches(s) == {i \in 1..Len(s) : PriceMatchEnd(s, i) > 0}

\* re.search(...).group(0), for a string that has a match
FirstPrice(s) == LET i == Min(PriceMatches(s)) IN SubSeq(s, i, PriceMatchEnd(s, i))

\* re.findall(...)[-1], for a string that has a match
LastPrice(s) == LET i == Max(PriceMatches(s)) IN SubSeq(s, i, PriceMatchEnd(s, i))

\* get_text("\n", strip=True).split("\n"): the stripped, non-empty strings
TextLines(strings) ==
    SelectSeq([i \in 1..Len(strings) |-> StrStrip(strings[i])], LAMBDA t : t # <<>>)

RECURSIVE JoinLines(_)
JoinLines(lines) ==
    IF lines = <<>> THEN <<>>
    ELSE IF Len(lines) = 1 THEN lines[1]
    ELSE lines[1] \o <<"\n">> \o JoinLines(Tail(lines))

IsCurrentPriceLine(line) ==
    /\ Contains(line, <<"$">>)
    /\ ~Contains(StrLower(line), <<"w", "a", "s">>)
    /\ PriceMatches(line) # {}

TargetRadioPrefers512(radios) ==
    LET checked == {i \in 1..Len(radios) : radios[i].checked}
        with512 == {i \in 1..Len(radios) :
                       Contains(Concat(radios[i].strings), <<"5", "1", "2">>)}
    IN  IF with512 # {} THEN Min(with512)
        ELSE IF checked # {} THEN Min(checked)
        ELSE 0

\* the radio the price is read from: its index in radios, or 0
TargetRadio(radios) ==
    LET checked == {i \in 1..Len(radios) : radios[i].checked}
        with512 == {i \in 1..Len(radios) :
                       Contains(Concat(radios[i].strings), <<"5", "1", "2">>)}
    IN  IF checked # {} THEN Min(checked)
        ELSE IF with512 # {} THEN Min(with512)
        ELSE 0

\* extract_price (lines 520-568)
extract_price(files, path) ==
    IF ~FileExists(files, path) THEN None
    ELSE LET doc == files[path]
             t == TargetRadio(doc.radios)
         IN  IF ~doc.device_info \/ t = 0 THEN None
             ELSE LET lines == TextLines(doc.radios[t].strings)
                      text == JoinLines(lines)
                      current == {i \in 1..Len(lines) : IsCurrentPriceLine(lines[i])}
                  IN  IF current # {} THEN FirstPrice(lines[Min(current)])
                      ELSE IF PriceMatches(text) # {} THEN LastPrice(text)
                      ELSE None

-----------------------------------------------------------------------------
(* The site pipelines: save_amazon_htmls, save_bestbuy_htmls and            *)
(* save_samsung_htmls.  Every await is a step that returns or raises.      *)

Sites == {"amazon", "bestbuy", "samsung"}

NoErr == "-"

SkuUrl == <<"h", ":", "/", "b", "/", "S", "k", "u", "-", "s", "m", "-", "9", "/">>

PlainUrl == <<"h", ":", "/", "p", "?", "k", "=", "s", "2", "5">>

Urls == {SkuUrl, PlainUrl}

RECURSIVE SeqsUpTo(_, _)
SeqsUpTo(S, n) ==
    IF n = 0 THEN {<<>>}
    ELSE LET shorter == SeqsUpTo(S, n - 1)
         IN  shorter \cup {Append(q, x) : q \in shorter, x \in S}

UrlLists == SeqsUpTo(Urls, MaxUrls)

\* what page.content() may return for a page of the site
FoundDoc(s) ==
    CASE s = "amazon" ->
           [NoDoc EXCEPT !.price_symbol = <<"$">>, !.price_whole = <<"4", "2">>,
                         !.price_fraction = <<"9", "9", " ">>,
                         !.th_model = TRUE, !.td_model = <<" ", "S", "M", "9">>]
      [] s = "bestbuy" ->
           [NoDoc EXCEPT !.bb_price = <<"$", "9", ".", "0", "0">>,
                         !.bb_model = <<"M", "o", "d", "e", "l", ":", " ", "S", "M", "9">>]
      [] s = "samsung" ->
           [NoDoc EXCEPT !.device_info = TRUE,
                         !.radios = <<[checked |-> TRUE,
                                       strings |-> << <<"5", "1", "2", "G", "B">>,
                                                      <<"$", "9", ".", "0", "0">> >>]>>]

\* the page with its content loaded
SiteDocs(s) == {FoundDoc(s)}

\* the page on which #device_info did not appear
PartialDocs(s) == {NoDoc}

NameLimit == 120

\* safe_name (lines 268, 446, 602)
SafeName(s, url) ==
    IF s = "samsung" THEN sanitize_filename(url, DefaultMaxLen)
    ELSE Truncate(sanitize_filename(url, DefaultMaxLen), NameLimit)

\* os.path.join(output_dir, f"{site}_{idx}_{safe_name}.html")
OutputFile(s, i, url) ==
    <<"outputs", "/", s, "_", DigitStr[i], "_">> \o SafeName(s, url) \o <<".html">>

IdField(s) == IF s = "samsung" THEN "sku" ELSE "model"

\* a URL Result Record: the dict in its key order
Record(s, url, file, price, id, status) ==
    << <<"url", url>>, <<"file", file>>, <<"price", price>>,
       <<IdField(s), id>>, <<"status", status>> >>

StatusOk == <<"ok">>

StatusPartial == <<"partial: no device_info">>

StatusError(e) == <<"error: ", e>>

ErrorRecordKeepsFile(s, url, e) == Record(s, url, url, None, None, StatusError(e))

ErrorRecord(s, url, e) == Record(s, url, None, None, None, StatusError(e))

\* the site's extractor on the captured file: <<price, identifier>>
Extract(s, files, path, url) ==
    CASE s = "amazon"  -> parse_amazon_html(files, path)
      [] s = "bestbuy" -> parse_bestbuy_html(files, path)
      [] s = "samsung" -> <<extract_price(files, path), extract_sku_from_url(url)>>

OkRecord(s, files, i, url) ==
    LET file == OutputFile(s, i, url)
        got  == Extract(s, files, file, url)
    IN  Record(s, url, file, got[1], got[2], StatusOk)

\* lines 623-624
PartialRecord(s, i, url) ==
    Record(s, url, OutputFile(s, i, url), None, extract_sku_from_url(url), StatusPartial)

NoFiles == [path \in {} |-> NoDoc]

WriteFile(files, path, doc) ==
    [q \in (DOMAIN files) \cup {path} |-> IF q = path THEN doc ELSE files[q]]

NoCounts == [s \in Sites |-> 0]

NoResults == [s \in Sites |-> <<>>]

\* no function is called on its own
NoCall == <<>>

\* no invocations of save_dict_to_excel_row run side by side
NoWriters == <<>>

NothingCalled == call = NoCall /\ ret = None /\ writers = NoWriters

PipelineIdle ==
    /\ site = "amazon"
    /\ urls = <<>>
    /\ idx = 0
    /\ pc = "idle"
    /\ page = 0
    /\ results = <<>>
    /\ openPages = {}
    /\ fs = NoFiles
    /\ cookieFile = [s \in Sites |-> FALSE]
    /\ loads = NoCounts
    /\ saves = NoCounts
    /\ err = NoErr
    /\ outcome = "idle"

\* the call of a pipeline: its body up to the launch of the browser
PipelineCalled(s, list) ==
    /\ site = s
    /\ urls = list
    /\ idx = 0
    /\ pc = "launch"
    /\ page = 0
    /\ results = <<>>
    /\ openPages = {}
    /\ err = NoErr
    /\ outcome = "running"

Running == outcome = "running"

\* the step after the for loop: the cookies are written by Amazon and
\* BestBuy (lines 312-314, 491-493) and by Samsung not at all (lines 663-667)
AfterLoopAlwaysPersist(s) == "persist"

AfterLoop(s) == IF s = "samsung" THEN "finally" ELSE "persist"

\* the loop moves from URL i to URL i + 1, or ends
LoopFrom(i) ==
    /\ idx' = i + 1
    /\ pc' = IF i + 1 > Len(urls) THEN AfterLoop(site) ELSE "new_page"

\* page = None at the top of an iteration (lines 448, 605); Amazon has none
PageAtTop(s, p) == IF s = "amazon" THEN p ELSE 0

\* an exception inside the try of the loop body reaches its except clause
RaiseInLoop(step) ==
    /\ err' = step
    /\ pc' = "except"

\* an exception outside the loop's try leaves the pipeline
LeavePipeline(step) ==
    /\ err' = step
    /\ outcome' = "raised"
    /\ pc' = "done"

\* the steps between PAGE_OPEN and the page's close
InnerSteps ==
    {"new_page", "goto", "interact", "networkidle", "device_info", "span_wait",
     "capture", "parse"}

\* an await returns and the pipeline goes on to the next step
StepTo(from, to) ==
    /\ Running
    /\ pc = from
    /\ pc' = to
    /\ UNCHANGED <<storeVars, mainVars, callVars>>
    /\ UNCHANGED <<site, urls, idx, page, results, openPages, fs, cookieFile,
                   loads, saves, err, outcome>>

\* an await of the loop body raises
FailsAt(from) ==
    /\ Running
    /\ pc = from
    /\ RaiseInLoop(from)
    /\ UNCHANGED <<storeVars, mainVars, callVars>>
    /\ UNCHANGED <<site, urls, idx, page, results, openPages, fs, cookieFile,
                   loads, saves, outcome>>

\* lines 246-247, 425-426, 582-583
Launch == StepTo("launch", "context")

LaunchFails ==
    /\ Running
    /\ pc = "launch"
    /\ LeavePipeline("launch")
    /\ UNCHANGED <<storeVars, mainVars, callVars>>
    /\ UNCHANGED <<site, urls, idx, page, results, openPages, fs, cookieFile,
                   loads, saves>>

\* lines 250-252, 429-431: the cookies file is read when it exists; Samsung
\* never reads it (lines 585-597)
LoadsCookies(s, exists) == s # "samsung" /\ exists

NewContext ==
    /\ Running
    /\ pc = "context"
    /\ loads' = IF LoadsCookies(site, cookieFile[site])
                THEN [loads EXCEPT ![site] = @ + 1] ELSE loads
    /\ idx' = 1
    /\ pc' = IF urls = <<>> THEN AfterLoop(site) ELSE "new_page"
    /\ UNCHANGED <<storeVars, mainVars, callVars>>
    /\ UNCHANGED <<site, urls, page, results, openPages, fs, cookieFile, saves,
                   err, outcome>>

NewContextFails ==
    /\ Running
    /\ pc = "context"
    /\ LeavePipeline("context")
    /\ UNCHANGED <<storeVars, mainVars, callVars>>
    /\ UNCHANGED <<site, urls, idx, page, results, openPages, fs, cookieFile,
                   loads, saves>>

\* lines 271, 450, 607
NewPage ==
    /\ Running
    /\ pc = "new_page"
    /\ page' = idx
    /\ openPages' = openPages \cup {idx}
    /\ pc' = "goto"
    /\ UNCHANGED <<storeVars, mainVars, callVars>>
    /\ UNCHANGED <<site, urls, idx, results, fs, cookieFile, loads, saves, err,
                   outcome>>

NewPageFails == FailsAt("new_page")

\* lines 273, 452, 609
Goto == StepTo("goto", IF site = "samsung" THEN "networkidle" ELSE "interact")

GotoFails == FailsAt("goto")

\* lines 276-289, 455-468: the settle delay, the mouse moves and the scrolls
Interact == StepTo("interact", "capture")

InteractFailsThenCaptures ==
    /\ Running
    /\ pc = "interact"
    /\ err' = "interact"
    /\ pc' = "capture"
    /\ UNCHANGED <<storeVars, mainVars, callVars>>
    /\ UNCHANGED <<site, urls, idx, page, results, openPages, fs, cookieFile,
                   loads, saves, outcome>>

InteractFails == FailsAt("interact")

\* lines 504-509, 612: wait_network_idle returns on idle and on TimeoutError
NetworkIdle == StepTo("networkidle", "device_info")

\* line 507: wait_for_load_state raises TimeoutError
NetworkIdleTimeout == StepTo("networkidle", "idle_timeout")

TimeoutPropagates == FailsAt("idle_timeout")

\* lines 508-509: the TimeoutError is caught and wait_network_idle returns
TimeoutSwallowed == StepTo("idle_timeout", "device_info")

NetworkIdleFails == FailsAt("networkidle")

\* line 616
DeviceInfo == StepTo("device_info", "span_wait")

\* line 617: TimeoutError
DeviceInfoTimeout == StepTo("device_info", "partial_capture")

DeviceInfoFails == FailsAt("device_info")

\* lines 620-624
PartialCapture ==
    /\ Running
    /\ pc = "partial_capture"
    /\ \E doc \in PartialDocs(site) :
          fs' = WriteFile(fs, OutputFile(site, idx, urls[idx]), doc)
    /\ results' = Append(results, PartialRecord(site, idx, urls[idx]))
    /\ pc' = "partial_close"
    /\ UNCHANGED <<storeVars, mainVars, callVars>>
    /\ UNCHANGED <<site, urls, idx, page, openPages, cookieFile, loads, saves,
                   err, outcome>>

PartialCaptureFails == FailsAt("partial_capture")

\* lines 625-626
PartialClose ==
    /\ Running
    /\ pc = "partial_close"
    /\ openPages' = openPages \ {page}
    /\ page' = PageAtTop(site, page)
    /\ LoopFrom(idx)
    /\ UNCHANGED <<storeVars, mainVars, callVars>>
    /\ UNCHANGED <<site, urls, results, fs, cookieFile, loads, saves, err, outcome>>

\* page.close() raises: the page is gone or is still open
PartialCloseFails ==
    /\ Running
    /\ pc = "partial_close"
    /\ \E left \in {openPages, openPages \ {page}} : openPages' = left
    /\ RaiseInLoop("close")
    /\ UNCHANGED <<storeVars, mainVars, callVars>>
    /\ UNCHANGED <<site, urls, idx, page, results, fs, cookieFile, loads, saves,
                   outcome>>

\* line 629
SpanWait == StepTo("span_wait", "capture")

SpanWaitFails == FailsAt("span_wait")

\* lines 292-294, 471-473, 632-634
Capture ==
    /\ Running
    /\ pc = "capture"
    /\ \E doc \in SiteDocs(site) :
          fs' = WriteFile(fs, OutputFile(site, idx, urls[idx]), doc)
    /\ pc' = "parse"
    /\ UNCHANGED <<storeVars, mainVars, callVars>>
    /\ UNCHANGED <<site, urls, idx, page, results, openPages, cookieFile, loads,
                   saves, err, outcome>>

CaptureFails == FailsAt("capture")

\* BestBuy and Samsung append the record before the page is closed (lines
\* 479-480, 647-652); Amazon appends it after (lines 300-302)
AppendsBeforeClose(s) == s # "amazon"

\* lines 298, 477, 643-647
Parse ==
    /\ Running
    /\ pc = "parse"
    /\ results' = IF AppendsBeforeClose(site)
                  THEN Append(results, OkRecord(site, fs, idx, urls[idx]))
                  ELSE results
    /\ pc' = "close"
    /\ UNCHANGED <<storeVars, mainVars, callVars>>
    /\ UNCHANGED <<site, urls, idx, page, openPages, fs, cookieFile, loads, saves,
                   err, outcome>>

ParseFails == FailsAt("parse")

\* lines 300-302, 480, 652
ClosePage ==
    /\ Running
    /\ pc = "close"
    /\ openPages' = openPages \ {page}
    /\ results' = IF AppendsBeforeClose(site) THEN results
                  ELSE Append(results, OkRecord(site, fs, idx, urls[idx]))
    /\ page' = PageAtTop(site, page)
    /\ LoopFrom(idx)
    /\ UNCHANGED <<storeVars, mainVars, callVars>>
    /\ UNCHANGED <<site, urls, fs, cookieFile, loads, saves, err, outcome>>

ClosePageFails ==
    /\ Running
    /\ pc = "close"
    /\ \E left \in {openPages, openPages \ {page}} : openPages' = left
    /\ RaiseInLoop("close")
    /\ UNCHANGED <<storeVars, mainVars, callVars>>
    /\ UNCHANGED <<site, urls, idx, page, results, fs, cookieFile, loads, saves,
                   outcome>>

\* the handler's page.close(), whose failure is swallowed (lines 305-308,
\* 483-487, 656-660): the pages that may be open after it
HandlerCloses(p, open) == IF p = 0 THEN {open} ELSE {open \ {p}, open}

ExceptAborts ==
    /\ Running
    /\ pc = "except"
    /\ outcome' = "raised"
    /\ pc' = "done"
    /\ UNCHANGED <<storeVars, mainVars, callVars>>
    /\ UNCHANGED <<site, urls, idx, page, results, openPages, fs, cookieFile,
                   loads, saves, err>>

\* lines 303-309, 481-488, 654-661
Except ==
    /\ Running
    /\ pc = "except"
    /\ \E left \in HandlerCloses(page, openPages) : openPages' = left
    /\ results' = Append(results, ErrorRecord(site, urls[idx], err))
    /\ err' = NoErr
    /\ page' = PageAtTop(site, page)
    /\ LoopFrom(idx)
    /\ UNCHANGED <<storeVars, mainVars, callVars>>
    /\ UNCHANGED <<site, urls, fs, cookieFile, loads, saves, outcome>>

\* lines 312-314, 491-493
Persist ==
    /\ Running
    /\ pc = "persist"
    /\ cookieFile' = [cookieFile EXCEPT ![site] = TRUE]
    /\ saves' = [saves EXCEPT ![site] = @ + 1]
    /\ pc' = "finally"
    /\ UNCHANGED <<storeVars, mainVars, callVars>>
    /\ UNCHANGED <<site, urls, idx, page, results, openPages, fs, loads, err,
                   outcome>>

PersistFails ==
    /\ Running
    /\ pc = "persist"
    /\ err' = "persist"
    /\ pc' = "finally"
    /\ UNCHANGED <<storeVars, mainVars, callVars>>
    /\ UNCHANGED <<site, urls, idx, page, results, openPages, fs, cookieFile,
                   loads, saves, outcome>>

\* lines 317-318, 496-497, 669-670: browser.close() closes every page
Finally ==
    /\ Running
    /\ pc = "finally"
    /\ openPages' = {}
    /\ outcome' = IF err = NoErr THEN "returned" ELSE "raised"
    /\ pc' = "done"
    /\ UNCHANGED <<storeVars, mainVars, callVars>>
    /\ UNCHANGED <<site, urls, idx, page, results, fs, cookieFile, loads, saves,
                   err>>

FinallyFails ==
    /\ Running
    /\ pc = "finally"
    /\ LeavePipeline("browser.close")
    /\ UNCHANGED <<storeVars, mainVars, callVars>>
    /\ UNCHANGED <<site, urls, idx, page, results, openPages, fs, cookieFile,
                   loads, saves>>

PipelineStep ==
    \/ Launch \/ LaunchFails
    \/ NewContext \/ NewContextFails
    \/ NewPage \/ NewPageFails
    \/ Goto \/ GotoFails
    \/ Interact \/ InteractFails
    \/ NetworkIdle \/ NetworkIdleFails
    \/ NetworkIdleTimeout \/ TimeoutSwallowed
    \/ DeviceInfo \/ DeviceInfoTimeout \/ DeviceInfoFails
    \/ PartialCapture \/ PartialCaptureFails
    \/ PartialClose \/ PartialCloseFails
    \/ SpanWait \/ SpanWaitFails
    \/ Capture \/ CaptureFails
    \/ Parse \/ ParseFails
    \/ ClosePage \/ ClosePageFails
    \/ Except
    \/ Persist \/ PersistFails
    \/ Finally \/ FinallyFails

\* one call of one pipeline
PipeInit ==
    /\ \E s \in Sites, list \in UrlLists : PipelineCalled(s, list)
    /\ fs = NoFiles
    /\ \E b \in BOOLEAN : cookieFile = [s \in Sites |-> b]
    /\ loads = NoCounts
    /\ saves = NoCounts
    /\ mainpc = "standalone"
    /\ res = NoResults
    /\ xlsx = NoFile
    /\ calls = 0
    /\ lastData = <<>>
    /\ lastPath = "none"
    /\ NothingCalled

PipeNext == PipelineStep

SpecPipe == PipeInit /\ [][PipeNext]_vars

-----------------------------------------------------------------------------
(* The records given to save_dict_to_excel_row *)

FlatKeyNoIndex(s, i, k) == <<s, "_", k>>

\* f"{site}_{i}_{k}" (main, lines 727, 732, 737)
FlatKey(s, i, k) == <<s, "_", DigitStr[i], "_", k>>

TimestampKey == <<"run_timestamp">>

\* datetime.utcnow().isoformat() + "Z" of the n-th run
Timestamp(n) == <<"2025-01-0", DigitStr[n], "T00:00:00", "Z">>

PriceKey == FlatKey("amazon", 1, "price")

ModelKey == FlatKey("amazon", 1, "model")

ExtraItems ==
    {<<PriceKey, None>>, <<PriceKey, <<"$42.99">> >>,
     <<ModelKey, None>>, <<ModelKey, PyList(<<"SM-S938U">>)>>}

\* the key/value pairs that may follow run_timestamp in a record
ExtraDicts ==
    {<<>>} \cup {<<a>> : a \in ExtraItems}
           \cup {<<a, b>> : <<a, b>> \in {ab \in ExtraItems \X ExtraItems : ab[1][1] # ab[2][1]}}

\* a flattened record always starts with run_timestamp (main, line 723)
StoreRecords(n) == {<< <<TimestampKey, Timestamp(n)>> >> \o d : d \in ExtraDicts}

-----------------------------------------------------------------------------
(* The store on its own: a sequence of save_dict_to_excel_row calls *)

StoreInit ==
    /\ xlsx = NoFile
    /\ calls = 0
    /\ lastData = <<>>
    /\ lastPath = "none"
    /\ PipelineIdle
    /\ mainpc = "standalone"
    /\ res = NoResults
    /\ NothingCalled

Save(data) ==
    /\ calls < MaxCalls
    /\ xlsx' = save_dict_to_excel_row(xlsx, data)
    /\ calls' = calls + 1
    /\ lastData' = data
    /\ lastPath' = IF xlsx.exists THEN "existing" ELSE "new"

SaveRecord ==
    /\ \E data \in StoreRecords(calls + 1) : Save(data)
    /\ UNCHANGED <<pipeVars, mainVars, callVars>>

StoreNext == SaveRecord

SpecStore == StoreInit /\ [][StoreNext]_vars

-----------------------------------------------------------------------------
(* main: the three pipelines in turn, then the flattened record is saved *)

\* the lists main hands to the pipelines (lines 679-698)
MainUrls(s) == IF s = "samsung" THEN <<SkuUrl>> ELSE <<PlainUrl>>

\* lines 725-728: the items of one site's records, in order
RECURSIVE FlattenFrom(_, _, _)
FlattenFrom(s, list, i) ==
    IF i > Len(list) THEN <<>>
    ELSE [j \in 1..Len(list[i]) |-> <<FlatKey(s, i, list[i][j][1]), list[i][j][2]>>]
             \o FlattenFrom(s, list, i + 1)

\* lines 722-738
Flatten(r, n) ==
    << <<TimestampKey, Timestamp(n)>> >>
        \o FlattenFrom("amazon", r["amazon"], 1)
        \o FlattenFrom("bestbuy", r["bestbuy"], 1)
        \o FlattenFrom("samsung", r["samsung"], 1)

\* a table left by an earlier run
PriorTable ==
    save_dict_to_excel_row(NoFile, << <<TimestampKey, <<"2024-12-31T00:00:00", "Z">> >>,
                                      <<PriceKey, <<"$42.99">> >> >>)

MainInit ==
    /\ PipelineCalled("amazon", MainUrls("amazon"))
    /\ fs = NoFiles
    /\ \E b \in BOOLEAN : cookieFile = [s \in Sites |-> b]
    /\ loads = NoCounts
    /\ saves = NoCounts
    /\ mainpc = "amazon"
    /\ res = NoResults
    /\ xlsx \in {NoFile, PriorTable}
    /\ calls = 0
    /\ lastData = <<>>
    /\ lastPath = "none"
    /\ NothingCalled

NextSite(s) == IF s = "amazon" THEN "bestbuy" ELSE "samsung"

MainGoesOnAfterRaise == outcome \in {"returned", "raised"}

\* main goes from one pipeline to the next only when the await returns
\* (lines 701, 707, 713)
MainGoesOn == outcome = "returned"

\* lines 701-713: a pipeline has returned and the next one is called
MainCallsNext ==
    /\ mainpc \in {"amazon", "bestbuy"}
    /\ MainGoesOn
    /\ res' = [res EXCEPT ![site] = results]
    /\ mainpc' = NextSite(site)
    /\ site' = NextSite(site)
    /\ urls' = MainUrls(NextSite(site))
    /\ idx' = 0
    /\ pc' = "launch"
    /\ page' = 0
    /\ results' = <<>>
    /\ openPages' = {}
    /\ err' = NoErr
    /\ outcome' = "running"
    /\ UNCHANGED <<fs, cookieFile, loads, saves, storeVars, callVars>>

\* lines 713-742: the last pipeline has returned; the record is built and saved
MainSaves ==
    /\ mainpc = "samsung"
    /\ MainGoesOn
    /\ res' = [res EXCEPT ![site] = results]
    /\ Save(Flatten(res', calls + 1))
    /\ mainpc' = "done"
    /\ UNCHANGED <<pipeVars, callVars>>

\* an exception of a pipeline leaves main and ends asyncio.run (line 745)
MainRaises ==
    /\ mainpc \in Sites
    /\ outcome = "raised"
    /\ mainpc' = "crashed"
    /\ UNCHANGED <<res, pipeVars, storeVars, callVars>>

MainNext == PipelineStep \/ MainCallsNext \/ MainSaves \/ MainRaises

SpecMain == MainInit /\ [][MainNext]_vars

\* main with two URLs in amazon_urls (lines 679-684)
RunInit ==
    /\ PipelineCalled("amazon", <<PlainUrl, PlainUrl>>)
    /\ fs = NoFiles
    /\ cookieFile = [s \in Sites |-> FALSE]
    /\ loads = NoCounts
    /\ saves = NoCounts
    /\ mainpc = "amazon"
    /\ res = NoResults
    /\ xlsx = NoFile
    /\ calls = 0
    /\ lastData = <<>>
    /\ lastPath = "none"
    /\ NothingCalled

SpecRun == RunInit /\ [][MainNext]_vars

-----------------------------------------------------------------------------
(* The end of main on its own: the three pipelines have returned their      *)
(* lists, which are flattened and saved                                     *)

\* the lists a pipeline may return for no URL or for two URLs: for each URL
\* the record of a captured page or an error record
RunResults(s) ==
    LET u == MainUrls(s)[1]
        ok(i) == OkRecord(s, WriteFile(NoFiles, OutputFile(s, i, u), FoundDoc(s)), i, u)
    IN  UNION {{[i \in 1..n |-> IF good[i] THEN ok(i) ELSE ErrorRecord(s, u, "goto")] :
                  good \in [1..n -> BOOLEAN]} : n \in {0, 2}}

\* the files the pipelines wrote for the records that name one
WrittenFiles(r) ==
    [q \in {DictGet(r[si[1]][si[2]], "file") :
               si \in {x \in Sites \X (1..2) : x[2] <= Len(r[x[1]])}} \ {None}
        |-> FoundDoc(q[3])]

\* main at line 713, save_samsung_htmls having returned
FlatInit ==
    /\ \E a \in RunResults("amazon"), b \in RunResults("bestbuy"),
          c \in RunResults("samsung") :
          /\ res = [NoResults EXCEPT !["amazon"] = a, !["bestbuy"] = b]
          /\ results = c
          /\ urls = [i \in 1..Len(c) |-> MainUrls("samsung")[1]]
          /\ idx = Len(c)
          /\ fs = WrittenFiles([amazon |-> a, bestbuy |-> b, samsung |-> c])
    /\ site = "samsung"
    /\ pc = "done"
    /\ page = 0
    /\ openPages = {}
    /\ cookieFile = [s \in Sites |-> s # "samsung"]
    /\ loads = NoCounts
    /\ saves = [s \in Sites |-> IF s = "samsung" THEN 0 ELSE 1]
    /\ err = NoErr
    /\ outcome = "returned"
    /\ mainpc = "samsung"
    /\ xlsx \in {NoFile, PriorTable}
    /\ calls = 0
    /\ lastData = <<>>
    /\ lastPath = "none"
    /\ NothingCalled

FlatNext == MainSaves

SpecFlat == FlatInit /\ [][FlatNext]_vars

-----------------------------------------------------------------------------
(* The projector on its own: calls of copy_columns_by_references and of     *)
(* save_dict_to_excel_row on the same file                                  *)

LetterA == <<"a">>

LetterB == <<" ", "B", " ">>

BlankSpelled == <<" ", "B", "l", "a", "n", "k", " ", "C", "O", "L", "U", "M", "N">>

Malformed == <<"a", "1">>

\* the tokens of a layout: column letters, blank columns, a malformed name
ProjTokens == {LetterA, LetterB, BlankSpelled, None, Malformed}

Layouts == SeqsUpTo(ProjTokens, MaxTokens)

\* the record of the n-th run: a price in the odd runs, a model in the even
ProjRecords(n) ==
    IF n % 2 = 1
    THEN {<< <<TimestampKey, Timestamp(n)>>, <<PriceKey, <<"$42.99">> >> >>}
    ELSE {<< <<TimestampKey, Timestamp(n)>>, <<ModelKey, PyList(<<"SM-S938U">>)>> >>}

CopyName == "copy_columns_by_references"

SaveName == "save_dict_to_excel_row"

ProjInit ==
    /\ xlsx = NoFile
    /\ calls = 0
    /\ lastData = <<>>
    /\ lastPath = "none"
    /\ PipelineIdle
    /\ mainpc = "standalone"
    /\ res = NoResults
    /\ call = [fn |-> "none", refs |-> <<>>, repeat |-> FALSE]
    /\ ret = None
    /\ writers = NoWriters

\* copy_columns_by_references(file_path, column_refs)
CopyColumns ==
    /\ \E refs \in Layouts :
          LET out == copy_columns_by_references(xlsx, refs)
          IN  /\ xlsx' = out.file
              /\ ret' = out.ret
              /\ call' = [fn |-> CopyName, refs |-> refs,
                          repeat |-> call.fn = CopyName /\ call.refs = refs]
    /\ UNCHANGED <<calls, lastData, lastPath, pipeVars, mainVars, writers>>

\* save_dict_to_excel_row(flat, excel_file), which projects column_refs when
\* the file exists
ProjSave ==
    /\ \E data \in ProjRecords(calls + 1) : Save(data)
    /\ call' = [fn |-> SaveName,
                refs |-> IF xlsx.exists THEN column_refs ELSE <<>>,
                repeat |-> FALSE]
    /\ ret' = None
    /\ UNCHANGED <<pipeVars, mainVars, writers>>

ProjNext == CopyColumns \/ ProjSave

SpecProj == ProjInit /\ [][ProjNext]_vars

-----------------------------------------------------------------------------
(* Two invocations of save_dict_to_excel_row on one path, side by side.  An *)
(* invocation is at "called", "create" (line 59), "load" (line 70), "save"  *)
(* (line 94), "project" (line 97) or "returned"; os.path.exists,            *)
(* load_workbook and wb.save are one step each.                             *)

Writers == {1, 2}

Other(w) == CHOOSE v \in Writers : v # w

\* no workbook is loaded
NoWorkbook == [sheets |-> <<>>, active |-> 0]

\* the records the two invocations write: each has its own run_timestamp
RaceRecords(w) ==
    {<< <<TimestampKey, Timestamp(w)>>, kv >> :
        kv \in {<<PriceKey, <<"$42.99">> >>, <<ModelKey, PyList(<<"SM-S938U">>)>>}}

\* the rows below the header in the first sheet of the file
DataRows(file) ==
    IF file.exists
    THEN Cardinality({rc[1] : rc \in DOMAIN file.sheets[1].cells} \ {1})
    ELSE 0

RaceInit ==
    /\ xlsx \in {NoFile, PriorTable}
    /\ calls = 0
    /\ lastData = <<>>
    /\ lastPath = "none"
    /\ PipelineIdle
    /\ mainpc = "standalone"
    /\ res = NoResults
    /\ call = NoCall
    /\ ret = None
    /\ \E d1 \in RaceRecords(1), d2 \in RaceRecords(2) :
          writers = [pc   |-> [w \in Writers |-> "called"],
                     data |-> [w \in Writers |-> IF w = 1 THEN d1 ELSE d2],
                     wb   |-> [w \in Writers |-> NoWorkbook],
                     before |-> DataRows(xlsx),
                     overlapped |-> FALSE]

RaceUnchanged == UNCHANGED <<calls, lastData, lastPath, pipeVars, mainVars, call, ret>>

\* line 58: if not os.path.exists(excel_file)
RaceExists(w) ==
    /\ writers.pc[w] = "called"
    /\ writers' = [writers EXCEPT
                      !.pc[w] = IF xlsx.exists THEN "load" ELSE "create",
                      !.overlapped = @ \/ writers.pc[Other(w)] \notin {"called", "returned"}]
    /\ UNCHANGED xlsx
    /\ RaceUnchanged

\* lines 59-67: a new workbook with the header and the row is saved
RaceCreate(w) ==
    /\ writers.pc[w] = "create"
    /\ xlsx' = SaveNewFile(writers.data[w])
    /\ writers' = [writers EXCEPT !.pc[w] = "returned"]
    /\ RaceUnchanged

\* lines 70-93: the whole file is loaded, the row is appended in memory
RaceLoad(w) ==
    /\ writers.pc[w] = "load"
    /\ writers' = [writers EXCEPT
                      !.pc[w] = "save",
                      !.wb[w] = AppendToWorkbook(LoadWorkbook(xlsx), writers.data[w])]
    /\ UNCHANGED xlsx
    /\ RaceUnchanged

\* line 94: wb.save(excel_file) writes the whole file
RaceSave(w) ==
    /\ writers.pc[w] = "save"
    /\ xlsx' = SaveWorkbook(writers.wb[w])
    /\ writers' = [writers EXCEPT !.pc[w] = "project"]
    /\ RaceUnchanged

\* lines 97-158: the projection of the workbook in memory, saved again
RaceProject(w) ==
    /\ writers.pc[w] = "project"
    /\ LET wb == ProjectWorkbook(writers.wb[w], column_refs)
       IN  /\ xlsx' = SaveWorkbook(wb)
           /\ writers' = [writers EXCEPT !.pc[w] = "returned", !.wb[w] = wb]
    /\ RaceUnchanged

RaceNext ==
    \E w \in Writers :
        \/ RaceExists(w)
        \/ RaceCreate(w)
        \/ RaceLoad(w)
        \/ RaceSave(w)
        \/ RaceProject(w)

SpecRace == RaceInit /\ [][RaceNext]_vars

-----------------------------------------------------------------------------
(* sanitize_filename on its own: the arguments are chosen, then it is called *)

\* a letter, characters that quote_plus escapes or replaces, and one it keeps
\* but the pattern of line 41 does not
SanChars == {"a", "/", " ", "~"}

SanStrings == SeqsUpTo(SanChars, MaxStrLen) \cup {None}

\* the values of maxlen: small ones and the default
SanLimits == (3..5) \cup {DefaultMaxLen}

SanInit ==
    /\ \E s \in SanStrings, n \in SanLimits :
          call = [s |-> s, maxlen |-> n, done |-> FALSE]
    /\ ret = None
    /\ writers = NoWriters
    /\ xlsx = NoFile
    /\ calls = 0
    /\ lastData = <<>>
    /\ lastPath = "none"
    /\ PipelineIdle
    /\ mainpc = "standalone"
    /\ res = NoResults

Sanitize ==
    /\ ~call.done
    /\ ret' = sanitize_filename(call.s, call.maxlen)
    /\ call' = [call EXCEPT !.done = TRUE]
    /\ UNCHANGED <<storeVars, pipeVars, mainVars, writers>>

SanNext == Sanitize

SpecSanitize == SanInit /\ [][SanNext]_vars

-----------------------------------------------------------------------------
(* The extractors on their own: a captured document (or none) is chosen,    *)
(* then the site's extractor is called on its file                          *)

Whole == <<"4", "2">>

Fraction == <<"9", "9", " ">>

Symbol == <<"$">>

ModelCell == <<" ", "S", "M", "9">>

AmazonDocs ==
    {[NoDoc EXCEPT !.price_whole = w, !.price_fraction = f, !.price_symbol = y,
                   !.th_model = th, !.td_model = td] :
        w \in {None, Whole}, f \in {None, Fraction}, y \in {None, Symbol},
        th \in BOOLEAN, td \in {None, ModelCell}}

BestBuyPrice == <<"$", "9", ".", "0", "0">>

BestBuyModel == <<"M", "o", "d", "e", "l", ":", " ", "S", "M", "9">>

BestBuyDocs ==
    {[NoDoc EXCEPT !.bb_price = p, !.bb_model = m] :
        p \in {None, BestBuyPrice}, m \in {None, BestBuyModel}}

\* the strings of a radio option, as get_text walks them
NowAndWas == <<<<"5", "1", "2", "G", "B">>, <<"$", "1", ",", "2", "9", "9", ".", "9", "9">>, <<"w", "a", "s", ":", " ", "$", "1", ",", "3", "9", "9", ".", "9", "9">>>>

OnlyWas == <<<<"2", "5", "6", "G", "B">>, <<"W", "a", "s", " ", "$", "9", ".", "0", "0">>, <<"w", "a", "s", " ", "$", "8", ".", "0", "0">>>>

NoAmount == <<<<"5", "1", "2", " ", "G", "B">>>>

WasFirst == <<<<"w", "a", "s", ":", " ", "$", "1", ",", "3", "9", "9", ".", "9", "9">>, <<"$", "1", ",", "2", "9", "9", ".", "9", "9">>>>

DollarNoAmount == <<<<"5">>, <<"1", "2", " ", "$", " ", "o", "f", "f">>, <<"$", "9", ".", "0", "0">>>>

RadioTexts == {NowAndWas, OnlyWas, NoAmount, WasFirst, DollarNoAmount}

Radios == {[checked |-> c, strings |-> t] : c \in BOOLEAN, t \in RadioTexts}

SamsungDocs ==
    {[NoDoc EXCEPT !.device_info = d, !.radios = r] :
        d \in BOOLEAN, r \in SeqsUpTo(Radios, MaxRadios)}

ExtractDocs(s) ==
    CASE s = "amazon"  -> AmazonDocs
      [] s = "bestbuy" -> BestBuyDocs
      [] s = "samsung" -> SamsungDocs

ExtractInit ==
    /\ \E s \in Sites, url \in Urls, e \in BOOLEAN :
          \E doc \in ExtractDocs(s) :
              call = [site |-> s, url |-> url, exists |-> e, doc |-> doc, done |-> FALSE]
    /\ ret = None
    /\ writers = NoWriters
    /\ xlsx = NoFile
    /\ calls = 0
    /\ lastData = <<>>
    /\ lastPath = "none"
    /\ PipelineIdle
    /\ mainpc = "standalone"
    /\ res = NoResults

\* price, model = parse_amazon_html(output_file) and its like (lines 298, 476,
\* 643-644)
Extracts ==
    /\ ~call.done
    /\ LET path  == OutputFile(call.site, 1, call.url)
           files == IF call.exists THEN WriteFile(NoFiles, path, call.doc) ELSE NoFiles
       IN  ret' = Extract(call.site, files, path, call.url)
    /\ call' = [call EXCEPT !.done = TRUE]
    /\ UNCHANGED <<storeVars, pipeVars, mainVars, writers>>

ExtractNext == Extracts

SpecExtract == ExtractInit /\ [][ExtractNext]_vars

-----------------------------------------------------------------------------
(* Reading the primary sheet of the file, for the properties below *)

Primary(file) == file.sheets[1]

RowNumbers(file) == {rc[1] : rc \in DOMAIN Primary(file).cells}

RowCount(file) == IF file.exists THEN Cardinality(RowNumbers(file)) ELSE 0

HeaderWidth(file) == Cardinality({rc \in DOMAIN Primary(file).cells : rc[1] = 1})

Header(file) == [c \in 1..HeaderWidth(file) |-> CellValue(Primary(file), 1, c)]

Position(seq, x) == CHOOSE i \in 1..Len(seq) : seq[i] = x

\* h is H followed by the keys of R that are not in H, in R's key order
ExtendsBy(h, H, R) ==
    LET keys == DictKeys(R)
        tail == SubSeq(h, Len(H) + 1, Len(h))
    IN  /\ Len(h) >= Len(H)
        /\ \A i \in 1..Len(H) : h[i] = H[i]
        /\ Range(tail) = Range(keys) \ Range(H)
        /\ \A i, j \in 1..Len(tail) :
              i < j => tail[i] # tail[j] /\ Position(keys, tail[i]) < Position(keys, tail[j])

\* C1: an append to an existing table leaves the header H followed by the
\* record's keys that were not in H, in the record's key order, every column
\* of H where it was, and one more row than before.
C1_HeaderExtendedRowAdded ==
    [][xlsx.exists =>
          /\ xlsx'.exists
          /\ ExtendsBy(Header(xlsx'), Header(xlsx), lastData')
          /\ RowCount(xlsx') = RowCount(xlsx) + 1
          /\ RowNumbers(xlsx') = 1..RowCount(xlsx')]_vars

C1_Witness ==
    /\ lastPath = "existing"
    /\ calls = 3
    /\ Len(Header(xlsx)) = 3
    /\ Header(xlsx)[3] = PriceKey
    /\ RowCount(xlsx) = 4

\* C2: a later append never alters a data row written before: every earlier
\* row keeps its position and its value in every column.
C2_RowsImmutable ==
    [][xlsx.exists =>
          \A r \in 2..RowCount(xlsx) : \A c \in 1..HeaderWidth(xlsx') :
              CellValue(Primary(xlsx'), r, c) = CellValue(Primary(xlsx), r, c)]_vars

\* an earlier row lacks a value in a column that a later append added
C2_Witness ==
    /\ calls = 3
    /\ HeaderWidth(xlsx) = 3
    /\ CellValue(Primary(xlsx), 2, 2) = None
    /\ CellValue(Primary(xlsx), 2, 3) = None
    /\ CellValue(Primary(xlsx), 3, 2) # None
    /\ CellValue(Primary(xlsx), 4, 3) # None

\* the cell that stores value v: v itself, or its JSON text when v is structured
Stored(v) == IF IsStructured(v) THEN JsonDumps(v) ELSE v

LastRow(file) == Max(RowNumbers(file))

\* C3: the row just written is aligned to the header now in effect: on
\* creation the header is the record's keys in the record's order and row 2
\* holds their values; on an existing table the new row holds, under every
\* header column, the record's value for that key or an empty cell.
C3_RowAlignedToHeader ==
    /\ lastPath = "new" =>
          /\ Header(xlsx) = DictKeys(lastData)
          /\ RowNumbers(xlsx) = {1, 2}
          /\ \A i \in 1..Len(lastData) :
                CellValue(Primary(xlsx), 2, i) = Stored(lastData[i][2])
    /\ lastPath = "existing" =>
          /\ \A c \in 1..HeaderWidth(xlsx) :
                CellValue(Primary(xlsx), LastRow(xlsx), c) =
                    IF DictHas(lastData, Header(xlsx)[c])
                    THEN Stored(DictGet(lastData, Header(xlsx)[c])) ELSE None
          /\ \A rc \in DOMAIN Primary(xlsx).cells :
                rc[1] = LastRow(xlsx) => rc[2] <= HeaderWidth(xlsx)

\* the last record has a structured value, an empty value and misses a column
C3_Witness ==
    /\ lastPath = "existing"
    /\ HeaderWidth(xlsx) = 3
    /\ Len(lastData) = 2
    /\ \E c \in 2..3 : /\ DictHas(lastData, Header(xlsx)[c])
                       /\ IsStructured(DictGet(lastData, Header(xlsx)[c]))
                       /\ CellValue(Primary(xlsx), LastRow(xlsx), c) = <<"[", "\"", "SM-S938U", "\"", "]">>

-----------------------------------------------------------------------------
(* Properties of the pipelines *)

Field(rec, k) == DictGet(rec, k)

IsError(rec) == Head(Field(rec, "status")) = "error: "

\* C4: a pipeline that returns has one record per input URL, in input order,
\* whatever step of a URL's processing fails.
C4_OneRecordPerUrl ==
    outcome = "returned" =>
        /\ Len(results) = Len(urls)
        /\ \A i \in 1..Len(urls) : Field(results[i], "url") = urls[i]

FailureSteps == InnerSteps \cup {"partial_capture"}

\* C5: a failure inside one URL's inner sequence gives that URL a record with
\* status "error: <message>" and the loop goes on with the next URL; the
\* pipeline is not aborted, and a pipeline that returns has been through
\* every URL.
C5_FailureIsolated ==
    /\ [][/\ (Running /\ pc \in FailureSteps /\ err' # NoErr) =>
                /\ pc' = "except"
                /\ outcome' = "running"
                /\ idx' = idx
          /\ pc = "except" =>
                /\ Len(results') = Len(results) + 1
                /\ SubSeq(results', 1, Len(results)) = results
                /\ Field(results'[Len(results')], "url") = urls[idx]
                /\ Field(results'[Len(results')], "status") = <<"error: ", err>>
                /\ outcome' = "running"
                /\ idx' = idx + 1
                /\ pc' = IF idx < Len(urls) THEN "new_page"
                         ELSE IF site = "samsung" THEN "finally" ELSE "persist"]_vars
    /\ [](outcome = "returned" => idx = Len(urls) + 1)

\* the first URL failed and the second one was processed to the end
C5_Witness ==
    /\ outcome = "returned"
    /\ Len(results) = 2
    /\ Field(results[1], "status") = <<"error: ", "goto">>
    /\ Field(results[2], "status") = StatusOk
    /\ Field(results[2], "file") \in DOMAIN fs

BeforePersist ==
    {"new_page", "goto", "interact", "networkidle", "device_info", "span_wait",
     "partial_capture", "partial_close", "capture", "parse", "close", "except",
     "persist"}

IsPartial(rec) == Field(rec, "status") = StatusPartial

\* C7 as stated: a record with status "partial: no device_info" has a null
\* price and a null sku, and its file has been written.
C7_PartialRecordAllNull ==
    \A i \in 1..Len(results) :
        IsPartial(results[i]) =>
            /\ Field(results[i], "price") = None
            /\ Field(results[i], "sku") = None
            /\ Field(results[i], "file") \in DOMAIN fs

\* the sku the URLs of the model carry
SkuIn(url) == IF url = SkuUrl THEN <<"s", "m", "-", "9">> ELSE None

\* C7 as amended: when #device_info does not appear in time and the document
\* is captured, the URL gets a record with status "partial: no device_info",
\* a null price, the sku found in the URL (null only when the URL has none)
\* and the file the document was written to.
C7_PartialRecordKeepsSku ==
    /\ [][(pc = "partial_capture" /\ err' = NoErr) =>
              /\ Len(results') = Len(results) + 1
              /\ IsPartial(results'[Len(results')])
              /\ Field(results'[Len(results')], "url") = urls[idx]]_vars
    /\ [](\A i \in 1..Len(results) :
            IsPartial(results[i]) =>
                /\ site = "samsung"
                /\ Field(results[i], "price") = None
                /\ Field(results[i], "sku") = SkuIn(Field(results[i], "url"))
                /\ Field(results[i], "file") # None
                /\ Field(results[i], "file") \in DOMAIN fs
                /\ fs[Field(results[i], "file")] \in PartialDocs(site))

\* a partial record whose sku is not null
C7_Witness ==
    /\ outcome = "returned"
    /\ Len(results) = 1
    /\ IsPartial(results[1])
    /\ Field(results[1], "sku") = <<"s", "m", "-", "9">>
    /\ Field(results[1], "file") \in DOMAIN fs

\* C9 as stated: a URL whose interaction phase failed still has its document
\* written and its record references the file.
C9_InteractionFailureStillCaptures ==
    \A i \in 1..Len(results) :
        Field(results[i], "status") = <<"error: ", "interact">> =>
            /\ Field(results[i], "file") # None
            /\ Field(results[i], "file") \in DOMAIN fs

\* C9 as amended: a failure during the interaction phase is handled like any
\* other failure of the URL: the URL gets an error record with no file, and no
\* document is written for it.
C9_InteractionFailureIsAnError ==
    [][/\ (Running /\ pc = "interact" /\ err' # NoErr) => pc' = "except"
       /\ (pc = "except" /\ err = "interact") =>
             /\ results' = Append(results,
                   Record(site, urls[idx], None, None, None, <<"error: ", "interact">>))
             /\ OutputFile(site, idx, urls[idx]) \notin DOMAIN fs'
             /\ idx' = idx + 1]_vars

C9_Witness ==
    /\ outcome = "returned"
    /\ site = "amazon"
    /\ Len(results) = 2
    /\ Field(results[1], "status") = <<"error: ", "interact">>
    /\ Field(results[1], "file") = None
    /\ DOMAIN fs = {Field(results[2], "file")}

\* C10: the page of a URL is closed before the next URL's page is opened and
\* before the pipeline returns, on every path.
C10_PageClosedBeforeNext ==
    /\ (Running /\ pc = "goto") => openPages \subseteq {idx}
    /\ outcome = "returned" => openPages = {}

\* C21: in the Samsung pipeline a timeout of the network-idle wait is
\* swallowed by wait_network_idle: the URL goes on to the wait for
\* #device_info, no record is appended for the timeout, no exception is in
\* flight and the pipeline keeps running with the same URL and page.
C21_IdleTimeoutSwallowed ==
    /\ [][(Running /\ pc = "idle_timeout") =>
              /\ pc' = "device_info"
              /\ results' = results
              /\ err' = NoErr
              /\ outcome' = "running"
              /\ idx' = idx
              /\ page' = page
              /\ openPages' = openPages]_vars
    /\ [](pc = "idle_timeout" => site = "samsung" /\ err = NoErr /\ page = idx)

\* the wait of the second URL has timed out, the first URL having its record
C21_Witness ==
    /\ Running
    /\ site = "samsung"
    /\ pc = "idle_timeout"
    /\ idx = 2
    /\ Len(results) = 1
    /\ Field(results[1], "status") = StatusOk

\* C23: every record of a pipeline's result list has the status "ok",
\* "partial: no device_info" (Samsung only) or "error: " followed by the
\* exception; a record with status ok or partial names a file written during
\* this run, and a record with an error status has a null file, a null price
\* and a null identifier.
C23_StatusDeterminesFile ==
    \A i \in 1..Len(results) :
        LET rec == results[i]
            status == Field(rec, "status")
        IN  /\ \/ status = StatusOk
               \/ status = StatusPartial /\ site = "samsung"
               \/ IsError(rec) /\ status = StatusError(status[2])
            /\ (status = StatusOk \/ status = StatusPartial) =>
                  /\ Field(rec, "file") # None
                  /\ Field(rec, "file") \in DOMAIN fs
            /\ IsError(rec) =>
                  /\ Field(rec, "file") = None
                  /\ Field(rec, "price") = None
                  /\ Field(rec, IdField(site)) = None

\* a Samsung run that ended with a partial record and an error record
C23_Witness ==
    /\ site = "samsung"
    /\ outcome = "returned"
    /\ Len(results) = 2
    /\ IsPartial(results[1])
    /\ Field(results[1], "file") \in DOMAIN fs
    /\ IsError(results[2])
    /\ Field(results[2], "file") = None

-----------------------------------------------------------------------------
(* Properties of main *)

\* C8 as stated: whatever happens to a pipeline, the run goes on and its
\* flattened record is appended to the table.
C8_RunAlwaysAppends == mainpc \in {"done", "crashed"} => calls = 1

Later(s) ==
    CASE s = "amazon" -> {"bestbuy", "samsung"}
      [] s = "bestbuy" -> {"samsung"}
      [] s = "samsung" -> {}

\* C8 as amended: an exception that leaves a pipeline leaves main: the
\* pipelines after it are not run and no row is appended in that run; the
\* record is appended only when all three pipelines have returned.
C8_PipelineFailureEndsRun ==
    /\ [][(mainpc \in Sites /\ outcome = "raised") =>
              /\ mainpc' = "crashed"
              /\ UNCHANGED <<xlsx, calls, site, res>>]_vars
    /\ [](mainpc = "crashed" =>
              /\ calls = 0
              /\ xlsx \in {NoFile, PriorTable}
              /\ \A s \in Later(site) : res[s] = <<>> /\ loads[s] = 0 /\ saves[s] = 0)
    /\ [](calls = 1 => mainpc = "done" /\ outcome = "returned")

\* BestBuy cannot be launched after Amazon has returned
C8_Witness ==
    /\ mainpc = "crashed"
    /\ site = "bestbuy"
    /\ err = "launch"
    /\ Len(res["amazon"]) = 1
    /\ saves["amazon"] = 1
    /\ xlsx = PriorTable

\* the pipeline of s returned one record with status ok and one error record
OneOkOneError(s) ==
    /\ Len(res[s]) = 2
    /\ \E i, j \in 1..2 : Field(res[s][i], "status") = StatusOk /\ IsError(res[s][j])

FlatKeysOf(data) == Range(DictKeys(data)) \ {TimestampKey}

\* C16, as claimed: when each pipeline returned one ok record and one error
\* record the appended record has exactly 6 keys besides run_timestamp.
C16_SixFlatKeys ==
    (mainpc = "done" /\ \A s \in Sites : OneOkOneError(s)) =>
        Cardinality(FlatKeysOf(lastData)) = 6

RecordFields(s) == {"url", "file", "price", IdField(s), "status"}

\* C16 as amended: when each pipeline returned one ok record and one error
\* record the appended record has, besides run_timestamp, exactly 30 keys:
\* "<site>_<index>_<field>" for each of the three sites, the indexes 1 and 2
\* and the five fields of the site's records; every key is a column of the
\* table and the new row holds its value, an empty cell for a null.
C16_ThirtyFlatKeys ==
    (mainpc = "done" /\ \A s \in Sites : OneOkOneError(s)) =>
        /\ Cardinality(FlatKeysOf(lastData)) = 30
        /\ FlatKeysOf(lastData) =
              {<<s, "_", d, "_", f>> : s \in Sites, d \in {"1", "2"},
                                       f \in {"url", "file", "price", "model", "sku", "status"}}
                  \ ({<<"samsung", "_", d, "_", "model">> : d \in {"1", "2"}}
                      \cup {<<s, "_", d, "_", "sku">> :
                                s \in {"amazon", "bestbuy"}, d \in {"1", "2"}})
        /\ \A s \in Sites : \A i \in 1..2 : \A f \in RecordFields(s) :
              LET key == <<s, "_", DigitStr[i], "_", f>>
              IN  /\ key \in Range(Header(xlsx))
                  /\ CellValue(Primary(xlsx), LastRow(xlsx), Position(Header(xlsx), key))
                        = Field(res[s][i], f)

\* the first run: the table has the timestamp and the 30 flattened columns
C16_Witness ==
    /\ mainpc = "done"
    /\ \A s \in Sites : OneOkOneError(s)
    /\ lastPath = "new"
    /\ HeaderWidth(xlsx) = 31
    /\ IsError(res["amazon"][1])
    /\ CellValue(Primary(xlsx), 2, Position(Header(xlsx), <<"amazon", "_", "2", "_", "price">>))
          = <<"$", "4", "2", ".", "9", "9">>

\* a pipeline is entered only when the one before it has returned, having
\* been through all its URLs
PipelinesInTurn ==
    [][site' # site =>
          /\ outcome = "returned"
          /\ idx = Len(urls) + 1
          /\ site' = NextSite(site)]_vars

\* the record is saved only when the three pipelines have returned
AppendAfterPipelines ==
    [][calls' # calls =>
          /\ site = "samsung"
          /\ outcome = "returned"
          /\ \A s \in {"amazon", "bestbuy"} : res[s] # <<>>]_vars

\* the page of URL i + 1 is opened when URL i has its record
PageAfterRecord == [][openPages' \ openPages # {} => Len(results) >= idx - 1]_vars

\* C20: in a run of main the Amazon pipeline is through all its URLs before
\* BestBuy starts and BestBuy before Samsung, the row is appended only after
\* the three pipelines have returned, the page of URL i + 1 is opened only
\* after URL i has its record, and at no time is more than one page open.
C20_TotalOrder ==
    /\ PipelinesInTurn
    /\ AppendAfterPipelines
    /\ PageAfterRecord
    /\ [](Cardinality(openPages) <= 1)

-----------------------------------------------------------------------------
(* Properties of the projector *)

ConvertedCount(file) ==
    Cardinality({i \in 1..Len(file.sheets) : file.sheets[i].title = ConvertedName})

Converted(file) == file.sheets[SheetIndex(file, ConvertedName)]

Projected == call.fn = CopyName /\ ret = ConvertedName

\* C11: projecting the same layout again, the source sheet being as it was,
\* leaves every cell of the converted sheet as the first projection left it;
\* and whatever projections were made, by copy_columns_by_references or by
\* save_dict_to_excel_row, the file has at most one sheet named "converted".
C11_ProjectionIdempotent ==
    /\ [][(Projected /\ call'.fn = CopyName /\ call'.refs = call.refs) =>
              /\ ret' = ConvertedName
              /\ Primary(xlsx').cells = Primary(xlsx).cells
              /\ Converted(xlsx').cells = Converted(xlsx).cells]_vars
    /\ [](xlsx.exists => ConvertedCount(xlsx) <= 1)

\* the same layout has been projected twice and the sheet holds copied cells
C11_Witness ==
    /\ Projected
    /\ call.repeat
    /\ call.refs = <<LetterB, LetterA>>
    /\ ConvertedCount(xlsx) = 1
    /\ CellValue(Converted(xlsx), 2, 1) # None
    /\ CellValue(Converted(xlsx), 2, 2) # None

\* the source column that a token's letters denote
DenotedColumn(token) == IF token = LetterA THEN 1 ELSE 2

ColumnEmpty(ws, k) == \A rc \in DOMAIN ws.cells : rc[2] # k

ColumnCopied(out, k, src, c) ==
    \A r \in 1..max_row(src) : CellValue(out, r, k) = CellValue(src, r, c)

\* C12: after a projection of n tokens the k-th column of the converted sheet
\* follows from the k-th token: empty for a blank-column token, the denoted
\* source column row by row (rows 1..max row of the source) for column
\* letters in any case and with spaces around them; nothing is written
\* beyond column n or below the source's last row.  The projection inside
\* save_dict_to_excel_row does the same with its hard-coded layout, whose
\* first token is "a" and whose other letters lie beyond the table's columns.
C12_ColumnPerToken ==
    /\ Projected =>
          LET src == Primary(xlsx)
              out == Converted(xlsx)
          IN  /\ \A k \in 1..Len(call.refs) :
                    /\ call.refs[k] \in {BlankSpelled, None} => ColumnEmpty(out, k)
                    /\ call.refs[k] \in {LetterA, LetterB} =>
                          ColumnCopied(out, k, src, DenotedColumn(call.refs[k]))
              /\ \A rc \in DOMAIN out.cells :
                    rc[2] <= Len(call.refs) /\ rc[1] <= max_row(src)
    /\ (call.fn = SaveName /\ lastPath = "existing") =>
          LET src == Primary(xlsx)
              out == Converted(xlsx)
          IN  /\ ColumnCopied(out, 1, src, 1)
              /\ \A rc \in DOMAIN out.cells : rc[2] = 1 /\ rc[1] <= max_row(src)

\* a blank column followed by the copy of source column B
C12_Witness ==
    /\ Projected
    /\ call.refs = <<BlankSpelled, LetterB>>
    /\ ColumnEmpty(Converted(xlsx), 1)
    /\ CellValue(Converted(xlsx), 1, 2) = PriceKey
    /\ CellValue(Converted(xlsx), 2, 2) = <<"$42.99">>

\* C13: a malformed column reference does not make the projector raise: its
\* column of the converted sheet is empty and the tokens after it fill their
\* own columns; when the source file is missing copy_columns_by_references
\* raises and no file is created or changed.
C13_ProjectorErrors ==
    /\ [](Projected =>
            \A k \in 1..Len(call.refs) :
                call.refs[k] = Malformed =>
                    /\ ColumnEmpty(Converted(xlsx), k)
                    /\ \A j \in (k + 1)..Len(call.refs) :
                          call.refs[j] \in {LetterA, LetterB} =>
                              ColumnCopied(Converted(xlsx), j, Primary(xlsx),
                                           DenotedColumn(call.refs[j])))
    /\ [][call'.fn = CopyName =>
              /\ xlsx.exists => ret' = ConvertedName
              /\ ~xlsx.exists => ret' = FileNotFound /\ xlsx' = xlsx]_vars

\* a malformed reference first, the copy of source column A after it
C13_Witness ==
    /\ Projected
    /\ call.refs = <<Malformed, LetterA>>
    /\ ColumnEmpty(Converted(xlsx), 1)
    /\ CellValue(Converted(xlsx), 1, 2) = TimestampKey

-----------------------------------------------------------------------------
(* Properties of sanitize_filename *)

SafeChars ==
    {"a", "b", "c", "d", "e", "f", "g", "h", "i", "j", "k", "l", "m",
     "n", "o", "p", "q", "r", "s", "t", "u", "v", "w", "x", "y", "z",
     "A", "B", "C", "D", "E", "F", "G", "H", "I", "J", "K", "L", "M",
     "N", "O", "P", "Q", "R", "S", "T", "U", "V", "W", "X", "Y", "Z",
     "0", "1", "2", "3", "4", "5", "6", "7", "8", "9", ".", "_", "-"}

\* C14: for every input string and every maxlen the result of
\* sanitize_filename is at most maxlen characters long and made of characters
\* of [A-Za-z0-9._-] only; an empty or absent input gives "file".
C14_SanitizedWithinLimit ==
    call.done =>
        /\ Len(ret) <= call.maxlen
        /\ \A i \in 1..Len(ret) : ret[i] \in SafeChars
        /\ call.s \in {<<>>, None} => ret = <<"f", "i", "l", "e">>

-----------------------------------------------------------------------------
(* Properties of the extractors *)

Extracted(s) == call.done /\ call.site = s

PriceNotFound == <<"Price not found">>

ModelNotFound == <<"Model number not found">>

\* C15, as claimed: with the captured file absent each of the three
\* extractors gives null for the price and null for the identifier.
C15_MissingDocumentAllNull ==
    (call.done /\ ~call.exists) => ret = <<None, None>>

\* C15 as amended: with the captured file absent no extractor raises; Amazon
\* gives null for price and model, BestBuy gives its two literals, Samsung
\* gives a null price, its sku being the one of the URL whatever the file.
C15_MissingDocumentBySite ==
    (call.done /\ ~call.exists) =>
        /\ call.site = "amazon" => ret = <<None, None>>
        /\ call.site = "bestbuy" => ret = <<PriceNotFound, ModelNotFound>>
        /\ call.site = "samsung" => ret = <<None, SkuIn(call.url)>>

C15_Witness ==
    /\ Extracted("bestbuy")
    /\ ~call.exists
    /\ call.doc.bb_price # None
    /\ ret = <<PriceNotFound, ModelNotFound>>

\* the price each option text of the model holds
NowPrice == <<"$", "1", ",", "2", "9", "9", ".", "9", "9">>

PriceOf(text) ==
    CASE text = NowAndWas -> NowPrice
      [] text = OnlyWas -> <<"$", "8", ".", "0", "0">>
      [] text = NoAmount -> None
      [] text = WasFirst -> NowPrice
      [] text = DollarNoAmount -> <<"$", "9", ".", "0", "0">>

Mentions512 == {NowAndWas, NoAmount, DollarNoAmount}

\* C17: the Samsung price is read from the first option marked selected,
\* else from the first option whose text mentions "512", else there is no
\* price; in that option it is the first dollar amount on a line without
\* "was" (any case), and only when there is no such line the last dollar
\* amount of the option's text.
C17_SamsungPricePreference ==
    (Extracted("samsung") /\ call.exists) =>
        LET radios == call.doc.radios
            selected == {i \in 1..Len(radios) : radios[i].checked}
            with512 == {i \in 1..Len(radios) : radios[i].strings \in Mentions512}
        IN  /\ ~call.doc.device_info => ret[1] = None
            /\ call.doc.device_info =>
                  /\ \A i \in selected :
                        (\A j \in selected : i <= j) => ret[1] = PriceOf(radios[i].strings)
                  /\ selected = {} =>
                        \A i \in with512 :
                            (\A j \in with512 : i <= j) => ret[1] = PriceOf(radios[i].strings)
                  /\ (selected = {} /\ with512 = {}) => ret[1] = None

\* the selected option comes after one that mentions 512 and has no price
C17_Witness ==
    /\ Extracted("samsung")
    /\ call.exists
    /\ call.doc.device_info
    /\ call.doc.radios = <<[checked |-> FALSE, strings |-> NoAmount],
                           [checked |-> TRUE, strings |-> NowAndWas]>>
    /\ ret[1] = NowPrice

\* C18: Amazon gives a price only when the whole part and the fraction part
\* are both found: symbol, whole part, ".", fraction part, each stripped; the
\* price has no symbol when only the symbol is missing, and it is null when
\* the whole part or the fraction part is missing, symbol or not.
C18_AmazonPrice ==
    (Extracted("amazon") /\ call.exists) =>
        LET doc == call.doc
        IN  /\ (doc.price_whole = Whole /\ doc.price_fraction = Fraction) =>
                  ret[1] = IF doc.price_symbol = Symbol
                           THEN <<"$", "4", "2", ".", "9", "9">>
                           ELSE <<"4", "2", ".", "9", "9">>
            /\ (doc.price_whole = None \/ doc.price_fraction = None) => ret[1] = None

C18_Witness ==
    /\ Extracted("amazon")
    /\ call.exists
    /\ call.doc.price_symbol = None
    /\ call.doc.price_whole = Whole
    /\ ret[1] = <<"4", "2", ".", "9", "9">>

\* C19: of a document it parses BestBuy never gives null: "Price not found"
\* without the price marker, "Model number not found" without the model
\* marker, each whatever the other; Amazon and Samsung give null for what
\* they do not find.
C19_BestBuySentinels ==
    /\ (Extracted("bestbuy") /\ call.exists) =>
          /\ ret[1] # None /\ ret[2] # None
          /\ ret[1] = IF call.doc.bb_price = None THEN PriceNotFound ELSE BestBuyPrice
          /\ ret[2] = IF call.doc.bb_model = None THEN ModelNotFound ELSE <<"S", "M", "9">>
    /\ (Extracted("amazon") /\ call.exists) =>
          /\ (call.doc.price_whole = None \/ call.doc.price_fraction = None) => ret[1] = None
          /\ (~call.doc.th_model \/ call.doc.td_model = None) => ret[2] = None
    /\ (Extracted("samsung") /\ call.exists) =>
          /\ (~call.doc.device_info \/ call.doc.radios = <<>>) => ret[1] = None
          /\ call.url = PlainUrl => ret[2] = None

C19_Witness ==
    /\ Extracted("bestbuy")
    /\ call.exists
    /\ call.doc.bb_price = None
    /\ call.doc.bb_model = BestBuyModel
    /\ ret = <<PriceNotFound, <<"S", "M", "9">>>>

-----------------------------------------------------------------------------
(* Properties of the converted sheet that save_dict_to_excel_row leaves *)

SheetRows(ws) == {rc[1] : rc \in DOMAIN ws.cells}

\* C24: after a call on an existing table the file has one converted sheet,
\* which is the projection of the primary sheet with the row just appended:
\* it has the rows of the primary sheet, the last one included, and its
\* first column is the primary sheet's column A, which ends with the
\* record's run_timestamp.  The call that creates the table leaves the
\* primary sheet alone in the file, without a converted sheet.
C24_ConvertedAfterAppend ==
    /\ lastPath = "existing" =>
          /\ ConvertedCount(xlsx) = 1
          /\ SheetRows(Converted(xlsx)) = RowNumbers(xlsx)
          /\ ColumnCopied(Converted(xlsx), 1, Primary(xlsx), 1)
          /\ CellValue(Converted(xlsx), LastRow(xlsx), 1) = Field(lastData, TimestampKey)
    /\ lastPath = "new" =>
          /\ ConvertedCount(xlsx) = 0
          /\ Len(xlsx.sheets) = 1

\* the third call: the converted sheet has the header and the three rows
C24_Witness ==
    /\ lastPath = "existing"
    /\ calls = 3
    /\ ConvertedCount(xlsx) = 1
    /\ RowNumbers(xlsx) = 1..4
    /\ SheetRows(Converted(xlsx)) = 1..4
    /\ CellValue(Converted(xlsx), 4, 1) = Timestamp(3)

\* the cell of the converted sheet is the copy of the primary sheet's cell
\* in the column that the layout names for it
CopiedFromPrimary(file, rc) ==
    /\ rc[2] \in 1..Len(column_refs)
    /\ ~IsBlankToken(column_refs[rc[2]])
    /\ Converted(file).cells[rc] =
          CellValue(Primary(file), rc[1], column_index_from_string(column_refs[rc[2]]))

\* C25: across the calls on one path the primary sheet stays the first and
\* the active sheet of the file; a call on the existing table appends its row
\* to the primary sheet, below the last row, under the header of the primary
\* sheet's first row, which it keeps; the converted sheet comes last, and
\* every cell of it is a copy of the primary sheet's cell: no row was appended
\* to it and no projection was read from it.
C25_PrimaryStaysFirst ==
    /\ [][(xlsx.exists /\ calls' = calls + 1) =>
              /\ Primary(xlsx').title = Primary(xlsx).title
              /\ RowNumbers(xlsx') = RowNumbers(xlsx) \cup {LastRow(xlsx) + 1}
              /\ CellValue(Primary(xlsx'), LastRow(xlsx) + 1, 1) =
                    Field(lastData', TimestampKey)
              /\ \A c \in 1..HeaderWidth(xlsx) :
                    CellValue(Primary(xlsx'), 1, c) = CellValue(Primary(xlsx), 1, c)]_vars
    /\ [](xlsx.exists =>
            /\ xlsx.active = 1
            /\ Primary(xlsx).title # ConvertedName
            /\ ConvertedCount(xlsx) <= 1
            /\ ConvertedCount(xlsx) = 1 =>
                  /\ Len(xlsx.sheets) = 2
                  /\ SheetIndex(xlsx, ConvertedName) = 2
                  /\ \A rc \in DOMAIN Converted(xlsx).cells : CopiedFromPrimary(xlsx, rc))

\* the third call found the file with its converted sheet and left the
\* primary sheet first, with the three rows
C25_Witness ==
    /\ calls = 3
    /\ lastPath = "existing"
    /\ xlsx.active = 1
    /\ sheetnames(xlsx) = << Primary(xlsx).title, ConvertedName >>
    /\ Primary(xlsx).title # ConvertedName
    /\ RowNumbers(xlsx) = 1..4

-----------------------------------------------------------------------------
(* Properties of invocations running side by side *)

AllReturned == \A w \in Writers : writers.pc[w] = "returned"

\* the row of invocation w is in the table
RowPresent(w) ==
    /\ xlsx.exists
    /\ \E r \in RowNumbers(xlsx) \ {1} :
          CellValue(Primary(xlsx), r, 1) = Timestamp(w)

\* C22: when the two invocations run one after the other, the table ends
\* with the rows of both (two more rows than before); when they run side by
\* side it ends with one or two more rows, never fewer than one.  That the
\* side-by-side run can end with one row only is C22_LostUpdate.
C22_SingleWriterKeepsRows ==
    AllReturned =>
        /\ ~writers.overlapped =>
              /\ DataRows(xlsx) = writers.before + 2
              /\ \A w \in Writers : RowPresent(w)
        /\ DataRows(xlsx) \in {writers.before + 1, writers.before + 2}
        /\ \E w \in Writers : RowPresent(w)

\* both invocations loaded the existing table before either saved it: the
\* table has grown by one row and holds the row of one invocation only
C22_LostUpdate ==
    /\ AllReturned
    /\ writers.overlapped
    /\ writers.before = 1
    /\ DataRows(xlsx) = writers.before + 1
    /\ \E w \in Writers : RowPresent(w) /\ ~RowPresent(Other(w))

====
